---- MODULE Spec2Model ----
(***************************************************************************)
(* tools/tcp_gen.py: TCP byte-stream generator, [LEN][TYPE][PAYLOAD]       *)
(* framing, optional fragmentation of the writes, paced or burst send      *)
(* loop.                                                                   *)
(*                                                                         *)
(* Five specifications share the module:                                   *)
(*   SpecCodec  calls of the pure helpers build_message / make_payload     *)
(*   SpecFrag   one call of send_fragmented on arbitrary data              *)
(*   Spec       one call of run(cfg)                                       *)
(*   SpecLive   run(cfg) with fair steps and an advancing clock            *)
(*   SpecMain   main() on a parsed command line                            *)
(*                                                                         *)
(* Python integers are unbounded.  A sequence number that may exceed 2^31  *)
(* is held as a pair [q, r] standing for q * 65536 + r with r < 65536.     *)
(***************************************************************************)
EXTENDS Integers, Sequences, FiniteSets, TLC

VARIABLES
    \* ---- SpecCodec: the call being made, its result, the call before it
    call, ret, prev,
    \* ---- run(cfg): configuration and control
    cfg,          \* GenConfig (frozen)
    pc,           \* position in run / _send_one / send_fragmented / send_all
    now,          \* time.perf_counter(), in ticks
    result,       \* value returned by run, NoResult while it runs
    \* ---- run locals
    stats,        \* MsgStats
    csv_file,     \* "none" | "open" | "closed"
    rows,         \* rows written through csv_writer after the header
    sock,         \* "new" | "connected" | "closed"
    gen,          \* message_stream generator: [seq, rng]
    deadlines,    \* rate_controller_next_deadline generator: [started, t]
    deadline,     \* run's deadline (last value taken from deadlines)
    rng,          \* run's rng, the fragmentation stream: [seed]
    end_time,     \* Inf when duration_s <= 0
    seq,          \* run's seq
    burst_i,      \* messages already taken by the current for-loop
    msg,          \* frame handed to _send_one
    t_send,       \* _send_one's t_send
    \* ---- send_fragmented / send_all locals
    data,         \* send_fragmented's data
    max_chunk,    \* send_fragmented's max_chunk
    i,            \* send_fragmented's i
    view,         \* send_all's data
    total,        \* send_all's total
    \* ---- the environment
    wire,         \* bytes the transport has accepted, in order
    chunks,       \* chunks send_fragmented handed to send_all, this call
    retried,      \* a sock.send was made after one had failed
    recv_calls,   \* number of sock.recv calls made
    write_fail,   \* NoFail, or the seq whose sock.send failed
    stdout,       \* what _final_report printed, if it ran
    stderr,       \* error diagnostics printed
    read,         \* the last sock.recv of this iteration: outcome, stats before it
    argv,         \* main: the parsed command line (argparse namespace a)
    exit_code,    \* value main returned to SystemExit
    pacing,       \* observation of the pacing clock: created, anchor, k deadlines asked
    attempts,     \* number of calls of _send_one
    cause         \* why the send loop was left: "none" while it runs

codecVars == <<call, ret, prev>>
sendVars  == <<t_send, data, max_chunk, i, view, total, wire, chunks, retried, write_fail>>
runLocals == <<cfg, now, result, stats, csv_file, rows, sock, gen, deadlines,
               deadline, rng, end_time, seq, burst_i, msg, recv_calls,
               stdout, stderr>>
mainVars  == <<argv, exit_code>>
runVars   == <<runLocals, cause, read, mainVars, pacing, attempts>>
vars      == <<codecVars, pc, sendVars, runVars>>

(***************************************************************************)
(* Bounds of the model                                                     *)
(***************************************************************************)
MaxLen       == 2      \* payloads enumerated byte by byte for build_message
MaxPayload   == 6      \* payload_len values tried for make_payload: 0..MaxPayload
MaxData      == 4      \* length of the data handed to send_fragmented alone
MaxChunk     == 3      \* max_chunk values tried: 0..MaxChunk

(***************************************************************************)
(* Exceptions and results                                                  *)
(***************************************************************************)
NoBytes == <<>>
Ok(b)      == [ok |-> TRUE,  exc |-> "none", bytes |-> b]
Raise(e)   == [ok |-> FALSE, exc |-> e,      bytes |-> NoBytes]

\* bytes of a frame under test: a few values at the ends and inside 0..255
ByteSamples == {0, 1, 255}

Fill(b, n) == [k \in 1..n |-> b]

SeqsUpTo(S, n) == UNION {[1..m -> S] : m \in 0..n}

(***************************************************************************)
(* struct.pack                                                             *)
(***************************************************************************)
\* struct.pack("B", v): one unsigned byte, struct.error outside 0..255
pack_B(v) == IF v >= 0 /\ v <= 255 THEN Ok(<<v>>) ELSE Raise("struct.error")

\* wide integers: [q, r] is q * 65536 + r
Wide(q, r) == [q |-> q, r |-> r]
ToWide(n)  == [q |-> n \div 65536, r |-> n % 65536]

\* seq & 0xFFFFFFFF
mask32(w) == [q |-> w.q % 65536, r |-> w.r]

\* struct.pack(">I", v): four bytes, most significant first; struct.error
\* when v does not fit 32 bits
pack_I(w) ==
    IF w.q > 65535 THEN Raise("struct.error")
    ELSE Ok(<<w.q \div 256, w.q % 256, w.r \div 256, w.r % 256>>)

(***************************************************************************)
(* build_message                                                           *)
(***************************************************************************)
\* len(payload) > 254: the longest payload a 1-byte LEN can count
MaxPayloadLen == 254

\* a slip: LEN truncated to a byte instead of rejected
build_message_trunc(msg_type, payload) ==
    LET length == 1 + Len(payload)
    IN  Ok(<<length % 256, msg_type % 256>> \o payload)

\* a slip: LEN counts the payload only
build_message_nolen(msg_type, payload) ==
    IF ~(0 <= msg_type /\ msg_type <= 255) THEN Raise("ValueError")
    ELSE IF Len(payload) > MaxPayloadLen THEN Raise("ValueError")
    ELSE Ok(<<Len(payload), msg_type>> \o payload)

build_message(msg_type, payload) ==
    IF ~(0 <= msg_type /\ msg_type <= 255) THEN Raise("ValueError")
    ELSE IF Len(payload) > MaxPayloadLen THEN Raise("ValueError")
    ELSE LET length == 1 + Len(payload)
             l == pack_B(length)
             t == pack_B(msg_type)
         IN  IF ~l.ok THEN l
             ELSE IF ~t.ok THEN t
             ELSE Ok(l.bytes \o t.bytes \o payload)

\* the receiver's rule of the module docstring: PAYLOAD_LEN = LEN - 1
Decode(frame) ==
    LET len == frame[1]
    IN  [msg_type |-> frame[2], payload |-> SubSeq(frame, 3, 2 + (len - 1))]

(***************************************************************************)
(* random.Random: a deterministic stream of the seed.  The k-th value   *)
(* drawn from a generator seeded s is a fixed function of (s, k).          *)
(***************************************************************************)
NewRandom(seed) == [seed |-> seed, k |-> 0]

\* k-th rng.randrange(0, 256) of the stream seeded `seed`
randrange256(seed, k) == ((seed * 31 + k * 17 + 7) * 29) % 256

(***************************************************************************)
(* make_payload(cfg, seq, rng), n = cfg.payload_len.  The result carries   *)
(* the rng as the call leaves it.                                          *)
(***************************************************************************)
PayloadRet(r, g) == [ok |-> r.ok, exc |-> r.exc, bytes |-> r.bytes, rng |-> g]

\* a slip: the low-order bytes kept when n < 4
make_payload_low(n, sq, g) ==
    IF n = 0 THEN PayloadRet(Ok(NoBytes), g)
    ELSE IF n < 0 THEN PayloadRet(Raise("ValueError"), g)
    ELSE LET tmp == pack_I(mask32(sq)).bytes
         IN  IF n >= 4
             THEN PayloadRet(Ok(tmp \o [j \in 1..(n - 4) |-> randrange256(g.seed, g.k + j - 1)]),
                             [g EXCEPT !.k = @ + (n - 4)])
             ELSE PayloadRet(Ok(SubSeq(tmp, 5 - n, 4)), g)

\* a slip: seq packed without the mask
make_payload_nomask(n, sq, g) ==
    IF n = 0 THEN PayloadRet(Ok(NoBytes), g)
    ELSE IF n < 0 THEN PayloadRet(Raise("ValueError"), g)
    ELSE LET tmp == pack_I(sq)
         IN  IF ~tmp.ok THEN PayloadRet(tmp, g)
             ELSE IF n >= 4
             THEN PayloadRet(Ok(tmp.bytes \o [j \in 1..(n - 4) |-> randrange256(g.seed, g.k + j - 1)]),
                             [g EXCEPT !.k = @ + (n - 4)])
             ELSE PayloadRet(Ok(SubSeq(tmp.bytes, 1, n)), g)

make_payload(n, sq, g) ==
    IF n = 0 THEN PayloadRet(Ok(NoBytes), g)
    ELSE IF n < 0 THEN PayloadRet(Raise("ValueError"), g)      \* bytearray(n)
    ELSE LET tmp == pack_I(mask32(sq)).bytes
         IN  IF n >= 4
             THEN \* out[0:4] = tmp; out[i] = rng.randrange(0, 256) for i in 4..n-1
                  PayloadRet(Ok(tmp \o [j \in 1..(n - 4) |-> randrange256(g.seed, g.k + j - 1)]),
                             [g EXCEPT !.k = @ + (n - 4)])
             ELSE \* out[:] = tmp[0:n]
                  PayloadRet(Ok(SubSeq(tmp, 1, n)), g)

\* one turn of message_stream's loop body: payload, then frame
next_message(msg_type, n, sq, g) ==
    LET p == make_payload(n, sq, g)
    IN  IF ~p.ok THEN p
        ELSE PayloadRet(build_message(msg_type, p.bytes), p.rng)

(***************************************************************************)
(* Time.  One tick is half a second.                                       *)
(***************************************************************************)
Ticks(seconds) == 2 * seconds
MsTicks(ms)    == Ticks(ms) \div 1000
Period(rate)   == Ticks(1) \div rate          \* 1.0 / rate_mps, rate_mps > 0
ReportEvery    == Ticks(1)                    \* _maybe_report's every_s = 1.0

MaxTime  == 4      \* the clock is not followed past this tick
MaxMsgs  == 3      \* messages taken from message_stream in one run
MaxReply == 2      \* bytes one sock.recv may return: 1..MaxReply

Min(a, b) == IF a < b THEN a ELSE b

(***************************************************************************)
(* GenConfig                                                               *)
(***************************************************************************)
BurstChoices == { [burst |-> FALSE, burst_msgs |-> 100, burst_idle_ms |-> 100],
                  [burst |-> TRUE,  burst_msgs |-> 0,   burst_idle_ms |-> 0],
                  [burst |-> TRUE,  burst_msgs |-> 0,   burst_idle_ms |-> 500],
                  [burst |-> TRUE,  burst_msgs |-> 2,   burst_idle_ms |-> 0],
                  [burst |-> TRUE,  burst_msgs |-> 2,   burst_idle_ms |-> 500] }

FragChoices  == { [fragment |-> FALSE, fragment_max_chunk |-> 8],
                  [fragment |-> TRUE,  fragment_max_chunk |-> 0],
                  [fragment |-> TRUE,  fragment_max_chunk |-> 3] }

GenConfig(d, r, rr, lg, mt, pl, b, f) ==
    [ duration_s |-> d, rate_mps |-> r, seed |-> 1,
      recv_replies |-> rr, log_csv |-> lg,
      msg_type |-> mt, payload_len |-> pl,
      burst |-> b.burst, burst_msgs |-> b.burst_msgs, burst_idle_ms |-> b.burst_idle_ms,
      fragment |-> f.fragment, fragment_max_chunk |-> f.fragment_max_chunk ]

Configs ==
    { GenConfig(d, r, rr, lg, mt, pl, b, f) :
        d \in {0, 1}, r \in {0, 2}, rr \in BOOLEAN, lg \in BOOLEAN,
        mt \in {68, 256}, pl \in {0, 5, 255},
        b \in BurstChoices, f \in FragChoices }

(***************************************************************************)
(* MsgStats                                                                *)
(***************************************************************************)
MsgStats == [sent |-> 0, send_bytes |-> 0, send_fail |-> 0, replies |-> 0,
             recv_bytes |-> 0, t0 |-> 0, t_last_report |-> 0]

NoFail   == [failed |-> FALSE, seq |-> 0]
NoResult == [returned |-> FALSE, code |-> 0]
Return(c) == [returned |-> TRUE, code |-> c]
Never    == [inf |-> TRUE,  t |-> 0]           \* float("inf")
At(t)    == [inf |-> FALSE, t |-> t]
\* a slip: the budget never tested
Before_unbounded(t, e) == TRUE

\* a slip: the budget test one tick late, t <= end_time
Before_late(t, e) == e.inf \/ t <= e.t

Before(t, e) == e.inf \/ t < e.t               \* t < end_time

(***************************************************************************)
(* The fragmentation rng: random.Random(cfg.seed ^ 0xA5A5A5A5)             *)
(***************************************************************************)
RECURSIVE xor(_, _, _)
xor(a, b, bits) ==
    IF bits = 0 THEN 0
    ELSE (((a % 2) + (b % 2)) % 2) + 2 * xor(a \div 2, b \div 2, bits - 1)

\* 0xA5A5A5A5 = 42405 * 65536 + 42405
FragSeed(seed) ==
    Wide(xor(ToWide(seed).q, 42405, 16), xor(ToWide(seed).r, 42405, 16))

(***************************************************************************)
(* send_all and send_fragmented                                            *)
(***************************************************************************)
\* send_fragmented, lines 135-137: the argument check and i = 0
send_fragmented ==
    /\ pc = "send_fragmented"
    /\ IF max_chunk <= 0
       THEN /\ pc' = "send_exc"            \* ValueError
            /\ cause' = "config"
            /\ UNCHANGED <<i, chunks>>
       ELSE /\ i' = 0
            /\ chunks' = <<>>
            /\ pc' = "frag_loop"
            /\ UNCHANGED cause
    /\ UNCHANGED <<attempts, pacing, mainVars, read, codecVars, t_send, data,
                   max_chunk, view, total, wire, retried, write_fail, runLocals>>

\* a slip: randint(0, ...), an empty chunk may be drawn
ChunkLens_zero(mc, remaining) == 0..Min(mc, remaining)

\* rng.randint(1, min(max_chunk, len(data) - i)): any value of the range (the
\* draws of the fragmentation stream are not computed, so every outcome the
\* generator can give is followed)
ChunkLens(mc, remaining) == 1..Min(mc, remaining)

\* a slip: data[i:i + chunk_len - 1], the chunk's last byte left out
Slice_short(d, from, n) == SubSeq(d, from + 1, Min(from + n, Len(d)) - 1)

\* data[i:i + chunk_len]: a Python slice stops at the end of data
Slice(d, from, n) == SubSeq(d, from + 1, Min(from + n, Len(d)))

\* send_fragmented, lines 138-141: the loop test, the draw, the call of send_all
send_fragmented_loop ==
    /\ pc = "frag_loop"
    /\ IF i < Len(data)
       THEN \E chunk_len \in ChunkLens(max_chunk, Len(data) - i) :
              /\ view' = Slice(data, i, chunk_len)
              /\ total' = 0
              /\ chunks' = Append(chunks, <<chunk_len, view'>>)
              /\ pc' = "send_all"
       ELSE /\ pc' = "sent"
            /\ UNCHANGED <<view, total, chunks>>
    /\ UNCHANGED <<codecVars, t_send, data, max_chunk, i, wire, retried, write_fail,
                   runVars>>

\* a slip: sock.send(view), the whole buffer offered again after a partial write
Offered_whole(v, t) == v

\* view[total:], the bytes offered to sock.send
Offered(v, t) == SubSeq(v, t + 1, Len(v))

\* send_all, lines 123-127: one sock.send.  The transport takes 1..all of the
\* bytes offered, or returns 0 (RuntimeError), or raises.
send_all ==
    /\ pc = "send_all"
    /\ total < Len(view)
    /\ retried' = (retried \/ write_fail.failed)
    /\ \/ \E n \in 1..Len(Offered(view, total)) :
            /\ wire' = wire \o SubSeq(Offered(view, total), 1, n)
            /\ total' = total + n
            /\ UNCHANGED <<pc, write_fail, cause>>
       \/ /\ write_fail' = [failed |-> TRUE, seq |-> seq]
          /\ pc' = "send_exc"
          /\ cause' = "write"
          /\ UNCHANGED <<wire, total>>
    /\ UNCHANGED <<attempts, pacing, mainVars, read, codecVars, t_send, data,
                   max_chunk, i, view, chunks, runLocals>>

\* send_all returns once total = len(data); send_fragmented then does
\* i += chunk_len (line 142)
send_all_return ==
    /\ pc = "send_all"
    /\ total >= Len(view)
    /\ IF cfg.fragment
       THEN /\ i' = i + chunks[Len(chunks)][1]
            /\ pc' = "frag_loop"
       ELSE /\ pc' = "sent"
            /\ UNCHANGED i
    /\ UNCHANGED <<codecVars, t_send, data, max_chunk, view, total, wire, chunks,
                   retried, write_fail, runVars>>

(***************************************************************************)
(* message_stream and rate_controller_next_deadline (generators)           *)
(***************************************************************************)
\* a slip: one generator for payloads and chunk lengths, a chunk length drawn
\* from it before the first payload when fragmenting
message_stream_shared(c) ==
    [seq |-> 0, rng |-> [seed |-> c.seed, k |-> IF c.fragment THEN 1 ELSE 0]]

\* message_stream(cfg) before its first next(): rng = Random(cfg.seed), seq = 0
message_stream(c) == [seq |-> 0, rng |-> NewRandom(c.seed)]

\* rate_controller_next_deadline(rate_mps) before its first next(): the body,
\* and with it t = time.perf_counter(), runs at the first next()
rate_controller(rate) == [started |-> FALSE, t |-> 0]

\* a slip: every deadline taken from the clock ("now + period")
rate_controller_drift(g, rate, t_now) ==
    IF rate <= 0 THEN [started |-> TRUE, t |-> 0]
    ELSE [started |-> TRUE, t |-> t_now + Period(rate)]

\* next(deadlines): the generator after the call; its t is the value yielded
rate_controller_next_deadline(g, rate, t_now) ==
    IF rate <= 0 THEN [started |-> TRUE, t |-> 0]
    ELSE [started |-> TRUE, t |-> (IF g.started THEN g.t ELSE t_now) + Period(rate)]

\* maybe_sleep_until(deadline): the clock when it returns
maybe_sleep_until(dl, t_now) ==
    IF dl <= 0 THEN t_now
    ELSE IF dl - t_now > 0 THEN dl ELSE t_now

(***************************************************************************)
(* run(cfg)                                                                *)
(***************************************************************************)
\* what is seen of the pacing clock: when it was created (line 217), the clock
\* at its first next(), how many deadlines it has been asked for
NoPacing == [created |-> 0, anchor |-> 0, k |-> 0]

\* the clock read `d` ticks after the last read
Clock(d) == now + d
Advance  == {d \in 0..1 : now + d <= MaxTime}

\* lines 195-209: the statistics, the optional CSV log, the socket
run_start ==
    /\ pc = "run_start"
    /\ stats' = [MsgStats EXCEPT !.t0 = now, !.t_last_report = now]
    /\ csv_file' = IF cfg.log_csv THEN "open" ELSE "none"
    /\ rows' = <<>>
    /\ sock' = "new"
    /\ pc' = "connect"
    /\ UNCHANGED <<attempts, pacing, mainVars, read, codecVars, sendVars, cfg, now,
                   result, gen, deadlines, deadline, rng, end_time, seq, burst_i, msg,
                   recv_calls, stdout, stderr, cause>>

\* lines 211-222: connect (or fail), then the generators, rng, end_time, seq
connect ==
    /\ pc = "connect"
    /\ \E d \in Advance : now' = Clock(d)
    /\ \/ /\ sock' = "connected"
          /\ gen' = message_stream(cfg)
          /\ deadlines' = rate_controller(cfg.rate_mps)
          /\ pacing' = [NoPacing EXCEPT !.created = now']
          /\ rng' = [seed |-> FragSeed(cfg.seed)]
          /\ end_time' = IF cfg.duration_s > 0
                         THEN At(stats.t0 + Ticks(cfg.duration_s)) ELSE Never
          /\ seq' = 0
          /\ pc' = "while"
          /\ UNCHANGED cause
       \/ /\ pc' = "except"                 \* connect error or timeout
          /\ cause' = "connect"
          /\ UNCHANGED <<sock, gen, deadlines, pacing, rng, end_time, seq>>
    /\ UNCHANGED <<attempts, mainVars, read, codecVars, sendVars, cfg, result, stats,
                   csv_file, rows, deadline, burst_i, msg, recv_calls, stdout,
                   stderr>>

\* line 223-225: the loop test and the choice of the policy
while_loop ==
    /\ pc = "while"
    /\ \E d \in Advance :
         /\ now' = Clock(d)
         /\ IF Before(now', end_time)
            THEN IF cfg.burst
                 THEN pc' = "for" /\ burst_i' = 0 /\ UNCHANGED cause
                 ELSE pc' = "pace" /\ UNCHANGED <<burst_i, cause>>
            ELSE pc' = "final" /\ cause' = "budget" /\ UNCHANGED burst_i
    /\ UNCHANGED <<attempts, pacing, mainVars, read, codecVars, sendVars, cfg, result,
                   stats, csv_file, rows, sock, gen, deadlines, deadline, rng,
                   end_time, seq, msg, recv_calls, stdout, stderr>>

\* lines 226-228: the for loop's next turn and the deadline test inside it
burst_for ==
    /\ pc = "for"
    /\ IF burst_i < cfg.burst_msgs
       THEN \E d \in Advance :
              /\ now' = Clock(d)
              /\ pc' = IF ~Before(now', end_time) THEN "idle" ELSE "next_gen"
       ELSE pc' = "idle" /\ UNCHANGED now
    /\ UNCHANGED <<attempts, pacing, mainVars, read, codecVars, sendVars, cfg, result,
                   stats, csv_file, rows, sock, gen, deadlines, deadline, rng,
                   end_time, seq, burst_i, msg, recv_calls, stdout, stderr, cause>>

\* lines 231-232: time.sleep(burst_idle_ms / 1000.0); continue
burst_idle ==
    /\ pc = "idle"
    /\ now + MsTicks(cfg.burst_idle_ms) <= MaxTime
    /\ now' = now + MsTicks(cfg.burst_idle_ms)
    /\ pc' = "while"
    /\ UNCHANGED <<attempts, pacing, mainVars, read, codecVars, sendVars, cfg, result,
                   stats, csv_file, rows, sock, gen, deadlines, deadline, rng,
                   end_time, seq, burst_i, msg, recv_calls, stdout, stderr, cause>>

\* lines 235-236: deadline = next(deadlines); maybe_sleep_until(deadline)
pace ==
    /\ pc = "pace"
    /\ deadlines' = rate_controller_next_deadline(deadlines, cfg.rate_mps, now)
    /\ deadline' = deadlines'.t
    /\ pacing' = [pacing EXCEPT !.anchor = IF pacing.k = 0 THEN now ELSE @,
                                !.k = @ + 1]
    /\ maybe_sleep_until(deadline', now) <= MaxTime
    /\ now' = maybe_sleep_until(deadline', now)
    /\ pc' = "next_gen"
    /\ UNCHANGED <<attempts, mainVars, read, codecVars, sendVars, cfg, result, stats,
                   csv_file, rows, sock, gen, rng, end_time, seq, burst_i, msg,
                   recv_calls, stdout, stderr, cause>>

\* next(gen), lines 162-165: the frame for gen.seq, or the exception
\* make_payload / build_message raise, which ends the generator
next_gen ==
    /\ pc = "next_gen"
    /\ gen.seq < MaxMsgs
    /\ LET m == next_message(cfg.msg_type, cfg.payload_len, ToWide(gen.seq), gen.rng)
       IN  IF m.ok
           THEN /\ msg' = m.bytes
                /\ gen' = [seq |-> gen.seq + 1, rng |-> m.rng]
                /\ pc' = "send_one"
                /\ UNCHANGED cause
           ELSE /\ pc' = "except"
                /\ cause' = "framing"
                /\ UNCHANGED <<msg, gen>>
    /\ UNCHANGED <<attempts, pacing, mainVars, read, codecVars, sendVars, cfg, now,
                   result, stats, csv_file, rows, sock, deadlines, deadline, rng,
                   end_time, seq, burst_i, recv_calls, stdout, stderr>>

\* _send_one, lines 286-292: t_send, then send_fragmented or send_all
_send_one ==
    /\ pc = "send_one"
    /\ attempts' = attempts + 1
    /\ t_send' = now
    /\ IF cfg.fragment
       THEN /\ data' = msg
            /\ max_chunk' = cfg.fragment_max_chunk
            /\ pc' = "send_fragmented"
            /\ UNCHANGED <<view, total>>
       ELSE /\ view' = msg
            /\ total' = 0
            /\ pc' = "send_all"
            /\ UNCHANGED <<data, max_chunk>>
    /\ UNCHANGED <<pacing, mainVars, read, codecVars, i, wire, chunks, retried,
                   write_fail, cfg, now, result, stats, csv_file, rows, sock, gen,
                   deadlines, deadline, rng, end_time, seq, burst_i, msg, recv_calls,
                   stdout, stderr, cause>>

\* the locals of _send_one, send_fragmented and send_all end with the call
LocalsGone ==
    /\ t_send' = 0
    /\ data' = NoBytes /\ max_chunk' = 0 /\ i' = 0
    /\ view' = NoBytes /\ total' = 0 /\ chunks' = <<>>

Row(s, t, n, note) == [seq |-> s, send_time_s |-> t, bytes_sent |-> n, note |-> note]

\* where run goes on after _send_one returned: the burst loop's next turn,
\* or the reply read, or the progress report
AfterSend == IF cfg.burst THEN "for"
             ELSE IF cfg.recv_replies THEN "recv" ELSE "report"

\* a slip: the failure swallowed, the loop goes on
AfterFail_swallow == "while"

\* line 304: raise, to run's except clause
AfterFail == "except"

\* a slip: the sequence number not advanced after a send
NextSeq_stuck(s) == s

NextSeq(s) == s + 1

\* a slip: the payload bytes counted, not the frame's
Counted_payload(st, m) ==
    [st EXCEPT !.sent = @ + 1, !.send_bytes = @ + Len(m) - 2]

\* lines 294-295: stats.sent += 1; stats.send_bytes += len(msg)
Counted(st, m) ==
    [st EXCEPT !.sent = @ + 1, !.send_bytes = @ + Len(m)]

\* _send_one, lines 294-297, and run's seq += 1 (lines 230, 238)
_send_one_ok ==
    /\ pc = "sent"
    /\ stats' = Counted(stats, msg)
    /\ rows' = IF csv_file = "open"
               THEN Append(rows, Row(seq, t_send, Len(msg), "ok")) ELSE rows
    /\ seq' = NextSeq(seq)
    /\ burst_i' = IF cfg.burst THEN burst_i + 1 ELSE burst_i
    /\ pc' = AfterSend
    /\ LocalsGone
    /\ UNCHANGED <<attempts, pacing, mainVars, read, codecVars, wire, retried,
                   write_fail, cfg, now, result, csv_file, sock, gen, deadlines,
                   deadline, rng, end_time, msg, recv_calls, stdout, stderr, cause>>

\* _send_one, lines 299-304: count, log, re-raise
_send_one_except ==
    /\ pc = "send_exc"
    /\ stats' = [stats EXCEPT !.send_fail = @ + 1]
    /\ rows' = IF csv_file = "open"
               THEN Append(rows, Row(seq, t_send, 0, "send_fail")) ELSE rows
    /\ pc' = AfterFail
    /\ LocalsGone
    /\ UNCHANGED <<attempts, pacing, mainVars, read, codecVars, wire, retried,
                   write_fail, cfg, now, result, csv_file, sock, gen, deadlines,
                   deadline, rng, end_time, seq, burst_i, msg, recv_calls, stdout,
                   stderr, cause>>

\* what one sock.recv(4096) under the reply timeout can give: n bytes, b"",
\* socket.timeout, or another exception
ReadOutcomes ==
    {[kind |-> "data", n |-> n] : n \in 1..MaxReply}
        \cup {[kind |-> k, n |-> 0] : k \in {"eof", "timeout", "error"}}

NoRead == [outcome |-> "none", before |-> MsgStats]

\* a slip: the read timeout taken for an error
AfterRead_strict(kind) ==
    CASE kind = "data"    -> "report"
      [] kind = "eof"     -> "final"
      [] kind = "timeout" -> "except"
      [] OTHER            -> "except"

\* lines 246-253: data is counted, b"" breaks out of the loop, socket.timeout is
\* passed over, any other exception goes to run's except clause
AfterRead(kind) ==
    CASE kind = "data"    -> "report"
      [] kind = "eof"     -> "final"
      [] kind = "timeout" -> "report"
      [] OTHER            -> "except"

\* lines 241-253: one sock.recv(4096) under the reply timeout
recv_replies ==
    /\ pc = "recv"
    /\ recv_calls' = recv_calls + 1
    /\ \E d \in Advance : now' = Clock(d)
    /\ \E o \in ReadOutcomes :
         /\ read' = [outcome |-> o.kind, before |-> stats]
         /\ stats' = IF o.kind = "data"
                     THEN [stats EXCEPT !.replies = @ + 1, !.recv_bytes = @ + o.n]
                     ELSE stats
         /\ pc' = AfterRead(o.kind)
         /\ cause' = CASE o.kind = "eof"   -> "peer_close"
                       [] o.kind = "error" -> "read_error"
                       [] OTHER            -> cause
    /\ UNCHANGED <<attempts, pacing, mainVars, codecVars, sendVars, cfg, result,
                   csv_file, rows, sock, gen, deadlines, deadline, rng, end_time, seq,
                   burst_i, msg, stdout, stderr>>

\* _maybe_report, lines 307-314; the iteration ends with it
_maybe_report ==
    /\ pc = "report"
    /\ IF now - stats.t_last_report >= ReportEvery
       THEN stats' = [stats EXCEPT !.t_last_report = now]   \* and the progress line
       ELSE UNCHANGED stats
    /\ read' = NoRead
    /\ pc' = "while"
    /\ UNCHANGED <<attempts, pacing, mainVars, codecVars, sendVars, cfg, now, result,
                   csv_file, rows, sock, gen, deadlines, deadline, rng, end_time, seq,
                   burst_i, msg, recv_calls, stdout, stderr, cause>>

\* the summary _final_report prints, lines 322-331 (the rates are left out)
Summary(st) ==
    [messages |-> st.sent, send_bytes |-> st.send_bytes, send_fail |-> st.send_fail,
     shows_replies |-> (st.replies # 0 \/ st.recv_bytes # 0)]

\* lines 257-258: _final_report(stats); return 0
_final_report ==
    /\ pc = "final"
    /\ stdout' = Append(stdout, Summary(stats))
    /\ result' = Return(0)
    /\ pc' = "finally"
    /\ UNCHANGED <<attempts, pacing, mainVars, read, codecVars, sendVars, cfg, now,
                   stats, csv_file, rows, sock, gen, deadlines, deadline, rng,
                   end_time, seq, burst_i, msg, recv_calls, stderr, cause>>

\* lines 260-262: except Exception: print the error, return 1
run_except ==
    /\ pc = "except"
    /\ stderr' = Append(stderr, "[tcp_gen] ERROR")
    /\ result' = Return(1)
    /\ pc' = "finally"
    /\ UNCHANGED <<attempts, pacing, mainVars, read, codecVars, sendVars, cfg, now,
                   stats, csv_file, rows, sock, gen, deadlines, deadline, rng,
                   end_time, seq, burst_i, msg, recv_calls, stdout, cause>>

\* a slip: the log file left open
CloseLog_leak(f) == f

\* csv_file.close() if csv_file
CloseLog(f) == IF f = "open" THEN "closed" ELSE f

\* lines 264-270: finally: sock.close(); csv_file.close(); run returns
run_finally ==
    /\ pc = "finally"
    /\ sock' = "closed"
    /\ csv_file' = CloseLog(csv_file)
    /\ pc' = "done"
    /\ UNCHANGED <<attempts, pacing, mainVars, read, codecVars, sendVars, cfg, now,
                   result, stats, rows, gen, deadlines, deadline, rng, end_time, seq,
                   burst_i, msg, recv_calls, stdout, stderr, cause>>

(***************************************************************************)
(* parse_args and main                                                     *)
(***************************************************************************)
\* the argparse namespace `a`, the options the model follows
Namespace(d, r, rr, lg, mt, pl, b, f) ==
    [ duration |-> d, rate |-> r, recv_replies |-> rr, log_csv |-> lg,
      msg_type |-> mt, payload_len |-> pl,
      burst |-> b.burst, burst_msgs |-> b.burst_msgs, burst_idle_ms |-> b.burst_idle_ms,
      fragment |-> f.fragment, fragment_max_chunk |-> f.fragment_max_chunk ]

\* run(cfg) called on a GenConfig directly: no command line
NoArgv == Namespace(0, 0, FALSE, FALSE, 0, 0,
                    [burst |-> FALSE, burst_msgs |-> 0, burst_idle_ms |-> 0],
                    [fragment |-> FALSE, fragment_max_chunk |-> 0])

\* main's cfg before parse_args has returned
NoConfig == GenConfig(0, 0, FALSE, FALSE, 0, 0,
                      [burst |-> FALSE, burst_msgs |-> 0, burst_idle_ms |-> 0],
                      [fragment |-> FALSE, fragment_max_chunk |-> 0])

\* x & 0xFF on a Python int (two's complement of unbounded width)
and_0xFF(x) == x % 256

\* parse_args, lines 364-384: the namespace copied into a GenConfig
parse_args ==
    /\ pc = "parse_args"
    /\ cfg' = GenConfig(argv.duration, argv.rate, argv.recv_replies, argv.log_csv,
                        and_0xFF(argv.msg_type), argv.payload_len,
                        [burst |-> argv.burst, burst_msgs |-> argv.burst_msgs,
                         burst_idle_ms |-> argv.burst_idle_ms],
                        [fragment |-> argv.fragment,
                         fragment_max_chunk |-> argv.fragment_max_chunk])
    /\ pc' = "main"
    /\ UNCHANGED <<codecVars, sendVars, now, result, stats, csv_file, rows, sock, gen,
                   deadlines, deadline, rng, end_time, seq, burst_i, msg, recv_calls,
                   stdout, stderr, cause, read, pacing, attempts, mainVars>>

\* main, lines 389-392: the payload_len check, then run(cfg)
main ==
    /\ pc = "main"
    /\ IF cfg.payload_len < 0 \/ cfg.payload_len > MaxPayloadLen
       THEN /\ stderr' = Append(stderr, "[tcp_gen] payload_len must be 0..254")
            /\ exit_code' = Return(2)
            /\ pc' = "exit"
       ELSE /\ pc' = "run_start"
            /\ UNCHANGED <<stderr, exit_code>>
    /\ UNCHANGED <<attempts, pacing, codecVars, sendVars, cfg, now, result, stats,
                   csv_file, rows, sock, gen, deadlines, deadline, rng, end_time, seq,
                   burst_i, msg, recv_calls, stdout, cause, read, argv>>

\* line 392: return run(cfg)
main_return ==
    /\ pc = "done"
    /\ exit_code' = result
    /\ pc' = "exit"
    /\ UNCHANGED <<attempts, pacing, codecVars, sendVars, runLocals, cause, read,
                   argv>>

(***************************************************************************)
(* Spec: one call of run(cfg)                                              *)
(***************************************************************************)
NoCall == [op |-> "none", msg_type |-> 0, payload |-> NoBytes, n |-> 0,
           seq |-> Wide(0, 0), rng |-> NewRandom(0)]
NoRet  == PayloadRet(Ok(NoBytes), NewRandom(0))

NoPrev == [call |-> NoCall, ret |-> NoRet]

CodecIdle ==
    /\ call = NoCall
    /\ ret = NoRet
    /\ prev = NoPrev

SendIdle ==
    /\ t_send = 0 /\ data = NoBytes /\ max_chunk = 0 /\ i = 0 /\ view = NoBytes /\ total = 0
    /\ wire = NoBytes /\ chunks = <<>> /\ retried = FALSE /\ write_fail = NoFail

RunIdle ==
    /\ now = 0 /\ result = NoResult /\ stats = MsgStats
    /\ csv_file = "none" /\ rows = <<>> /\ sock = "none"
    /\ gen = [seq |-> 0, rng |-> NewRandom(0)]
    /\ deadlines = [started |-> FALSE, t |-> 0] /\ deadline = 0
    /\ rng = [seed |-> Wide(0, 0)] /\ end_time = Never /\ seq = 0 /\ burst_i = 0
    /\ msg = NoBytes /\ recv_calls = 0
    /\ stdout = <<>> /\ stderr = <<>> /\ cause = "none"
    /\ read = NoRead /\ pacing = NoPacing /\ attempts = 0

Init ==
    /\ cfg \in Configs
    /\ pc = "run_start"
    /\ argv = NoArgv /\ exit_code = NoResult
    /\ CodecIdle /\ SendIdle /\ RunIdle

Next ==
    \/ run_start \/ connect \/ while_loop \/ burst_for \/ burst_idle \/ pace
    \/ next_gen \/ _send_one \/ send_fragmented \/ send_fragmented_loop
    \/ send_all \/ send_all_return \/ _send_one_ok \/ _send_one_except
    \/ recv_replies \/ _maybe_report \/ _final_report \/ run_except \/ run_finally

Spec == Init /\ [][Next]_vars

(***************************************************************************)
(* SpecLive: one call of run(cfg) in which no step is put off for ever and *)
(* the clock does not stand still for ever                                 *)
(***************************************************************************)
InitLive ==
    /\ cfg \in {c \in Configs : ~c.log_csv /\ c.msg_type = 68 /\ c.payload_len = 0
                                /\ c.fragment /\ c.fragment_max_chunk > 0}
    /\ pc = "run_start"
    /\ argv = NoArgv /\ exit_code = NoResult
    /\ CodecIdle /\ SendIdle /\ RunIdle

\* a step at which the clock is read later than before
Tick == Next /\ now' > now

SpecLive == InitLive /\ [][Next]_vars /\ WF_vars(Next) /\ SF_vars(Tick)

(***************************************************************************)
(* SpecMain: one run of the program, main() on a parsed command line       *)
(***************************************************************************)
Argvs ==
    { Namespace(1, 2, rr, FALSE, mt, pl, b, f) :
        rr \in BOOLEAN, mt \in {0 - 1, 68, 256}, pl \in {0 - 1, 5, 255},
        b \in {c \in BurstChoices : c.burst_idle_ms > 0}, f \in FragChoices }

InitMain ==
    /\ pc = "parse_args"
    /\ argv \in Argvs
    /\ cfg = NoConfig
    /\ exit_code = NoResult
    /\ CodecIdle /\ SendIdle /\ RunIdle

NextMain == parse_args \/ main \/ main_return \/ Next

SpecMain == InitMain /\ [][NextMain]_vars

(***************************************************************************)
(* SpecCodec: calls of build_message, make_payload and of the two in a row *)
(* (message_stream's loop body) on chosen arguments                        *)
(***************************************************************************)
TypeInputs    == {0 - 1, 0, 68, 255, 256}
PayloadInputs == SeqsUpTo(ByteSamples, MaxLen)
                     \cup {Fill(b, n) : b \in {0, 255}, n \in {MaxPayloadLen, MaxPayloadLen + 1}}
\* 0, 1, 255, 256, 2^16, 0x01020304, 2^32 - 1, 2^32, 2^32 + 1, 0x102030405
SeqInputs     == {Wide(0, 0), Wide(0, 1), Wide(0, 255), Wide(0, 256), Wide(1, 0),
                  Wide(258, 772), Wide(65535, 65535), Wide(65536, 0), Wide(65536, 1),
                  Wide(66051, 1029)}
RngInputs     == {[seed |-> sd, k |-> k] : sd \in {1, 2}, k \in {0, 2}}

Called(op, t, p, n, sq, g) ==
    [op |-> op, msg_type |-> t, payload |-> p, n |-> n, seq |-> sq, rng |-> g]

call_build_message ==
    /\ pc = "codec"
    /\ \E t \in TypeInputs, p \in PayloadInputs :
         /\ call' = Called("build_message", t, p, 0, Wide(0, 0), NewRandom(0))
         /\ ret' = PayloadRet(build_message(t, p), NewRandom(0))
    /\ prev' = NoPrev
    /\ UNCHANGED <<pc, sendVars, runVars>>

call_make_payload ==
    /\ pc = "codec"
    /\ \E n \in 0..MaxPayload, sq \in SeqInputs, g \in RngInputs :
         /\ call' = Called("make_payload", 0, NoBytes, n, sq, g)
         /\ ret' = make_payload(n, sq, g)
    /\ prev' = NoPrev
    /\ UNCHANGED <<pc, sendVars, runVars>>

call_next_message ==
    /\ pc = "codec"
    /\ \E t \in {68, 256}, n \in {0, 3, 4}, sq \in {Wide(0, 0), Wide(0, 1), Wide(65536, 1)} :
         /\ call' = Called("next_message", t, NoBytes, n, sq, NewRandom(1))
         /\ ret' = next_message(t, n, sq, NewRandom(1))
    /\ prev' = NoPrev
    /\ UNCHANGED <<pc, sendVars, runVars>>

\* make_payload called a second time with the arguments of the call before
call_make_payload_again ==
    /\ pc = "codec"
    /\ call.op = "make_payload"
    /\ prev' = [call |-> call, ret |-> ret]
    /\ ret' = make_payload(call.n, call.seq, call.rng)
    /\ UNCHANGED <<call, pc, sendVars, runVars>>

InitCodec ==
    /\ pc = "codec"
    /\ cfg \in {c \in Configs : c.duration_s = 0 /\ c.rate_mps = 0 /\ ~c.recv_replies
                                /\ ~c.log_csv /\ c.msg_type = 68 /\ c.payload_len = 0
                                /\ ~c.burst /\ ~c.fragment}
    /\ argv = NoArgv /\ exit_code = NoResult
    /\ CodecIdle /\ SendIdle /\ RunIdle

NextCodec ==
    \/ call_build_message \/ call_make_payload \/ call_next_message
    \/ call_make_payload_again

SpecCodec == InitCodec /\ [][NextCodec]_vars

(***************************************************************************)
(* SpecFrag: one call of send_fragmented(sock, data, rng, max_chunk)       *)
(***************************************************************************)
InitFrag ==
    /\ pc = "send_fragmented"
    /\ cfg \in {c \in Configs : c.duration_s = 0 /\ c.rate_mps = 0 /\ ~c.recv_replies
                                /\ ~c.log_csv /\ c.msg_type = 68 /\ c.payload_len = 0
                                /\ ~c.burst /\ c.fragment /\ c.fragment_max_chunk > 0}
    /\ data \in SeqsUpTo({0, 255}, MaxData)
    /\ max_chunk \in 0..MaxChunk
    /\ t_send = 0 /\ i = 0 /\ view = NoBytes /\ total = 0
    /\ wire = NoBytes /\ chunks = <<>> /\ retried = FALSE /\ write_fail = NoFail
    /\ argv = NoArgv /\ exit_code = NoResult
    /\ CodecIdle /\ RunIdle

NextFrag == send_fragmented \/ send_fragmented_loop \/ send_all \/ send_all_return

SpecFrag == InitFrag /\ [][NextFrag]_vars

(***************************************************************************)
(* Properties                                                              *)
(***************************************************************************)
\* the big-endian 4-byte encoding of w mod 2^32, w = q * 65536 + r
BE32(w) == <<(w.q % 65536) \div 256, (w.q % 65536) % 256, w.r \div 256, w.r % 256>>

RECURSIVE Concat(_)
Concat(ss) == IF ss = <<>> THEN <<>> ELSE Head(ss) \o Concat(Tail(ss))

\* C1: for msg_type in 0..255 and a payload of at most 254 bytes build_message
\* returns 2 + len(payload) bytes: LEN = 1 + len(payload), TYPE = msg_type, then
\* the payload verbatim; decoding the frame gives back msg_type and payload.
C1_FrameRoundTrip ==
    (call.op = "build_message" /\ call.msg_type \in 0..255 /\ Len(call.payload) <= 254)
    => /\ ret.ok
       /\ Len(ret.bytes) = 2 + Len(call.payload)
       /\ ret.bytes[1] = 1 + Len(call.payload)
       /\ ret.bytes[2] = call.msg_type
       /\ SubSeq(ret.bytes, 3, Len(ret.bytes)) = call.payload
       /\ Decode(ret.bytes) = [msg_type |-> call.msg_type, payload |-> call.payload]

C1_Witness ==
    /\ call.op = "build_message" /\ call.msg_type = 255
    /\ Len(call.payload) = 254 /\ ret.ok /\ ret.bytes[1] = 255

\* C2: the chunks send_fragmented hands to the transport writer, concatenated in
\* order, are the part of data it has gone through, and all of data once it
\* returns; every chunk has 1..max_chunk bytes; empty data gives no chunk.
C2_Reconstruction ==
    /\ \A k \in DOMAIN chunks :
         /\ Len(chunks[k][2]) >= 1
         /\ Len(chunks[k][2]) <= max_chunk
         /\ chunks[k][1] = Len(chunks[k][2])
    /\ pc = "frag_loop" => Concat([k \in DOMAIN chunks |-> chunks[k][2]]) = SubSeq(data, 1, i)
    /\ pc = "send_all"  => Concat([k \in DOMAIN chunks |-> chunks[k][2]])
                              = SubSeq(data, 1, i + Len(view))
    /\ pc = "sent" => /\ Concat([k \in DOMAIN chunks |-> chunks[k][2]]) = data
                      /\ max_chunk >= 1
                      /\ (data = <<>> => chunks = <<>>)

C2_Witness ==
    /\ pc = "sent" /\ Len(data) = 4 /\ max_chunk = 3
    /\ Len(chunks) = 3 /\ Len(chunks[1][2]) = 1 /\ Len(chunks[2][2]) = 2

SendFailRows == {k \in DOMAIN rows : rows[k].note = "send_fail"}

\* C3 as stated: a write failure on message N (N = write_fail.seq + 1) ends the
\* run with N - 1 sends counted, one send_fail counted, one send_fail log record
\* written, no further write, and a non-zero result.
C3_FailureAbort ==
    (pc = "done" /\ write_fail.failed)
    => /\ stats.sent = write_fail.seq
       /\ stats.send_fail = 1
       /\ Cardinality(SendFailRows) = 1
       /\ ~retried
       /\ result.returned /\ result.code # 0

\* C3 amended: as C3, the send_fail log record being written when a log sink is
\* configured and not otherwise; from the failure on nothing more is sent.
C3_FailureAbortLogged ==
    write_fail.failed
    => /\ stats.sent = write_fail.seq
       /\ ~retried
       /\ pc \in {"send_exc", "except", "finally", "done"}
       /\ pc \in {"except", "finally", "done"} =>
            /\ stats.send_fail = 1
            /\ Cardinality(SendFailRows) = (IF cfg.log_csv THEN 1 ELSE 0)
       /\ pc = "done" => (result.returned /\ result.code # 0)

C3_Witness ==
    /\ pc = "done" /\ write_fail.failed /\ write_fail.seq = 2 /\ stats.sent = 2
    /\ cfg.log_csv /\ cfg.fragment /\ result.code = 1

\* C4 as stated: for payload_len < 4 the payload is the low payload_len bytes of
\* the big-endian encoding of seq mod 2^32; msg_type 0x44, payload_len 3, seq 1
\* gives the frame [04 44 00 00 01].
C4_LowBytes ==
    /\ (call.op = "make_payload" /\ call.n \in 1..3)
       => ret.bytes = SubSeq(BE32(call.seq), 5 - call.n, 4)
    /\ (call.op = "next_message" /\ call.msg_type = 68 /\ call.n = 3
            /\ call.seq = Wide(0, 1))
       => ret.bytes = <<4, 68, 0, 0, 1>>

\* C4 amended: for payload_len < 4 the payload is the first (most significant)
\* payload_len bytes of the big-endian encoding of seq mod 2^32; msg_type 0x44,
\* payload_len 3, seq 1 gives the payload [00 00 00] and the frame [04 44 00 00 00].
C4_HighBytes ==
    /\ (call.op = "make_payload" /\ call.n \in 1..3)
       => ret.bytes = SubSeq(BE32(call.seq), 1, call.n)
    /\ (call.op = "next_message" /\ call.msg_type = 68 /\ call.n = 3
            /\ call.seq = Wide(0, 1))
       => ret.bytes = <<4, 68, 0, 0, 0>>

C4_Witness ==
    /\ call.op = "next_message" /\ call.msg_type = 68 /\ call.n = 3
    /\ call.seq = Wide(0, 1) /\ ret.ok /\ Len(ret.bytes) = 5

\* C5: make_payload returns exactly payload_len bytes; the first min(payload_len,
\* 4) of them are the first bytes of the big-endian encoding of seq mod 2^32,
\* also for seq >= 2^32; a second call with the same payload_len, seq and rng
\* state returns the same bytes.
C5_PayloadDeterminism ==
    call.op = "make_payload"
    => /\ ret.ok
       /\ Len(ret.bytes) = call.n
       /\ \A j \in 1..Min(call.n, 4) : ret.bytes[j] = BE32(call.seq)[j]
       /\ \A j \in 5..call.n : ret.bytes[j] = randrange256(call.rng.seed, call.rng.k + j - 5)
       /\ prev.call = call => prev.ret = ret

C5_Witness ==
    /\ call.op = "make_payload" /\ call.n = 6 /\ call.seq = Wide(66051, 1029)
    /\ prev.call = call /\ SubSeq(ret.bytes, 1, 4) = <<2, 3, 4, 5>>

\* C6: build_message fails, returning no bytes, when the payload has 255 bytes or
\* more or msg_type is outside 0..255; a frame it does return has
\* LEN = 1 + len(PAYLOAD) and LEN in 1..255.
C6_FrameRejection ==
    call.op \in {"build_message", "next_message"}
    => /\ (call.op = "build_message"
             /\ (Len(call.payload) >= 255 \/ call.msg_type < 0 \/ call.msg_type > 255))
          => (~ret.ok /\ ret.bytes = <<>>)
       /\ (call.op = "next_message" /\ call.msg_type > 255) => ~ret.ok
       /\ ret.ok => /\ Len(ret.bytes) >= 2
                    /\ ret.bytes[1] = 1 + (Len(ret.bytes) - 2)
                    /\ ret.bytes[1] \in 1..255

C6_Witness ==
    /\ call.op = "build_message" /\ call.msg_type = 68
    /\ Len(call.payload) = 255 /\ ~ret.ok

\* C7: with a log sink, one record per send attempt in send order: as many
\* records as sent + send_fail, the k-th (from 0) with sequence number k, an ok
\* record with the frame's length, a send_fail record with 0 bytes.
C7_LogRecords ==
    cfg.log_csv
    => /\ Len(rows) = stats.sent + stats.send_fail
       /\ Cardinality(SendFailRows) = stats.send_fail
       /\ \A k \in DOMAIN rows :
            /\ rows[k].seq = k - 1
            /\ rows[k].note \in {"ok", "send_fail"}
            /\ rows[k].note = "ok" => rows[k].bytes_sent = 2 + cfg.payload_len
            /\ rows[k].note = "send_fail" => rows[k].bytes_sent = 0
            /\ k > 1 => rows[k - 1].send_time_s <= rows[k].send_time_s
            /\ k < Len(rows) => rows[k].note = "ok"

C7_Witness ==
    /\ cfg.log_csv /\ Len(rows) = 3 /\ rows[2].note = "ok"
    /\ rows[3].note = "send_fail" /\ cfg.payload_len = 5

\* C8: when run returns, by whichever way the loop was left or never entered,
\* the transport is closed and so is the log sink if one was opened.
C8_Cleanup ==
    pc = "done"
    => /\ sock = "closed"
       /\ csv_file # "open"
       /\ cfg.log_csv => csv_file = "closed"
       /\ cause \in {"budget", "peer_close", "connect", "write", "framing",
                     "config", "read_error"}

C8_Witness ==
    pc = "done" /\ cause = "read_error" /\ csv_file = "closed" /\ sock = "closed"

\* C9 as stated: whenever the send loop is left (time budget, peer close or an
\* error) the final summary has been printed when run returns.
C9_SummaryAlways ==
    pc = "done" => Len(stdout) = 1

\* C10 as stated: with reply reading enabled, paced or burst, a read has been
\* attempted after every successful send before the next message is sent.
C10_ReadAfterEachSend ==
    (cfg.recv_replies /\ pc = "send_one") => recv_calls = stats.sent

\* C11: a read timeout leaves every counter as it was and the loop goes on; a
\* zero-length read ends the run with no further send, send_fail as it was and
\* result 0; any other read error ends the run with a non-zero result.
C11_ReadOutcomes ==
    /\ read.outcome = "timeout"
       => /\ pc = "report" /\ cause = "none" /\ ~result.returned
          /\ \A f \in {"sent", "send_bytes", "send_fail", "replies", "recv_bytes"} :
               stats[f] = read.before[f]
    /\ read.outcome = "eof"
       => /\ cause = "peer_close"
          /\ pc \in {"final", "finally", "done"}
          /\ stats.sent = read.before.sent
          /\ stats.send_bytes = read.before.send_bytes
          /\ stats.send_fail = read.before.send_fail
          /\ pc = "done" => result = Return(0)
    /\ read.outcome = "error"
       => /\ cause = "read_error"
          /\ pc \in {"except", "finally", "done"}
          /\ pc = "done" => (result.returned /\ result.code # 0)

\* the reads of a run: data, timeout, then the peer's close
C11_Witness ==
    /\ pc = "done" /\ read.outcome = "eof" /\ result = Return(0)
    /\ recv_calls = 3 /\ stats.sent = 3 /\ stats.replies = 1

\* C12 as stated: a payload length outside 0..254, fragmentation with a max
\* chunk <= 0, or a message type outside 0..255 on the command line is fatal:
\* nothing is written to the transport, and the program ends with a diagnostic
\* and a non-zero exit code.
C12_ConfigErrorsFatal ==
    (\/ argv.payload_len \notin 0..MaxPayloadLen
     \/ (argv.fragment /\ argv.fragment_max_chunk <= 0)
     \/ argv.msg_type \notin 0..255)
    => /\ wire = NoBytes
       /\ pc = "exit" => (exit_code.returned /\ exit_code.code # 0 /\ stderr # <<>>)

\* C13 as stated: after a failed connect, or with a payload length outside
\* 0..254, or with fragmentation and a max chunk <= 0, no send is attempted, no
\* byte is written, send_fail stays 0 and no send_fail log record is written.
C13_FatalBeforeRunning ==
    (\/ cause = "connect"
     \/ cfg.payload_len \notin 0..MaxPayloadLen
     \/ (cfg.fragment /\ cfg.fragment_max_chunk <= 0))
    => /\ pc \notin {"send_fragmented", "frag_loop", "send_all", "sent", "send_exc"}
       /\ wire = NoBytes
       /\ stats.sent = 0 /\ stats.send_fail = 0
       /\ SendFailRows = {}

PacedFrom(a) ==
    ~cfg.burst
    => /\ cfg.rate_mps > 0
          => /\ pacing.k >= 1 => deadline = a + pacing.k * Period(cfg.rate_mps)
             /\ pc \in {"next_gen", "send_one", "send_fragmented", "frag_loop",
                        "send_all", "sent", "send_exc"}
                => (pacing.k = stats.sent + 1 /\ now >= deadline)
             /\ pc \in {"send_fragmented", "frag_loop", "send_all", "sent", "send_exc"}
                => t_send >= deadline
             /\ pc \in {"while", "pace", "recv", "report"} => pacing.k = stats.sent
       /\ cfg.rate_mps <= 0 => deadline = 0

\* a request for a deadline: the wait ends at the deadline, or at once when the
\* deadline is not in the future; the deadlines grow by one period; with
\* rate_mps <= 0 there is no wait
PacedSteps ==
    [][pc = "pace"
         => /\ cfg.rate_mps > 0
               => /\ now' = (IF deadline' > now THEN deadline' ELSE now)
                  /\ pacing.k >= 1 => (deadline' = deadline + Period(cfg.rate_mps)
                                         /\ deadline' > deadline)
            /\ cfg.rate_mps <= 0 => now' = now]_vars

\* C15 as stated: in a paced run the k-th deadline is anchor + k * period, the
\* anchor being the time the pacing clock was created; one message per deadline,
\* never before it.
C15_AnchoredAtCreation ==
    PacedFrom(pacing.created)

\* C15 amended: as C15, the anchor being the clock at the first request for a
\* deadline, which is not before the creation of the pacing clock; a deadline
\* not in the future is followed by a send without a wait; with rate_mps <= 0
\* no send waits.
C15_AnchoredAtFirstRequest ==
    [](PacedFrom(pacing.anchor) /\ (pacing.k >= 1 => pacing.anchor >= pacing.created))
        /\ PacedSteps

\* the second deadline already past when it is asked for, in a run whose first
\* request came one tick after the pacing clock was created
C15_Witness ==
    /\ ~cfg.burst /\ cfg.rate_mps = 2 /\ pc = "send_all" /\ pacing.k = 2
    /\ now > deadline /\ pacing.anchor > pacing.created

\* the run has come to a message the model does not follow
BeyondBounds == pc = "next_gen" /\ gen.seq >= MaxMsgs

\* C16: with duration_s > 0 run returns in the end, paced or burst, whatever
\* burst_msgs and burst_idle_ms are (as far as the model follows the run); with
\* duration_s = 0 there is no end time and the loop is never left because of the
\* time budget.
C16_Termination ==
    /\ (cfg.duration_s > 0) ~> (pc = "done" \/ BeyondBounds)
    /\ [](cfg.duration_s = 0 => (end_time.inf /\ cause # "budget"))

\* a burst run that never sends and never sleeps, ended by its time budget
C16_Witness ==
    /\ pc = "done" /\ cause = "budget" /\ cfg.duration_s = 1 /\ result = Return(0)
    /\ cfg.burst /\ cfg.burst_msgs = 0 /\ cfg.burst_idle_ms = 0

\* C17: while send_all writes a chunk the transport has accepted, once each and
\* in order, the bytes of data before the chunk and the first `total` bytes of
\* the chunk; the next chunk length is chosen only when all of the chunks so far
\* have been accepted; send_fragmented returns when all of data has been; after a
\* write that reported <= 0 bytes nothing more is written.
C17_ReliableWrite ==
    /\ pc = "send_all" => /\ total <= Len(view)
                          /\ wire = SubSeq(data, 1, i) \o SubSeq(view, 1, total)
                          /\ wire = SubSeq(data, 1, i + total)
    /\ pc = "frag_loop" => wire = SubSeq(data, 1, i)
    /\ pc = "sent" => wire = data
    /\ write_fail.failed <=> (pc = "send_exc" /\ cause = "write")
    /\ write_fail.failed => /\ ~retried
                            /\ total < Len(view)
                            /\ wire = SubSeq(data, 1, i + total)

\* the second chunk, three bytes long, accepted in two writes so far
C17_Witness ==
    /\ pc = "send_all" /\ Len(data) = 4 /\ i = 1 /\ Len(view) = 3 /\ total = 2
    /\ Len(chunks) = 2 /\ wire = SubSeq(data, 1, 3) /\ data[1] # data[2]

\* the payload generator after s messages of payload length pl, from
\* Random(seed); the frame for sequence number s
RECURSIVE StreamRng(_, _, _, _)
StreamRng(mt, pl, seed, s) ==
    IF s = 0 THEN NewRandom(seed)
    ELSE next_message(mt, pl, ToWide(s - 1), StreamRng(mt, pl, seed, s - 1)).rng

Frame(mt, pl, seed, s) ==
    next_message(mt, pl, ToWide(s), StreamRng(mt, pl, seed, s)).bytes

\* the two, worked out once for the configurations and the messages followed
StreamKeys == {<<c.msg_type, c.payload_len, c.seed>> : c \in Configs}

RngAfter == [key \in StreamKeys, s \in 0..MaxMsgs |->
               StreamRng(key[1], key[2], key[3], s)]

FrameOf == [key \in StreamKeys, s \in 0..MaxMsgs |->
              Frame(key[1], key[2], key[3], s)]

StreamKey == <<cfg.msg_type, cfg.payload_len, cfg.seed>>

\* C18: the frame of every message and the state of the payload generator are
\* fixed by seed, message type, payload length and the message's sequence
\* number alone, whatever the fragmentation toggle, the max chunk size and the
\* chunk lengths drawn; when fragmenting, the frame is what send_fragmented is
\* given to write.
C18_FramesIndependent ==
    /\ pc \in {"while", "for", "idle", "pace", "next_gen", "send_one", "send_fragmented",
               "frag_loop", "send_all", "sent", "send_exc", "recv", "report"}
       => gen.rng = RngAfter[StreamKey, gen.seq]
    /\ pc \in {"send_one", "send_fragmented", "frag_loop", "send_all", "sent", "send_exc"}
       => /\ gen.seq = seq + 1
          /\ msg = FrameOf[StreamKey, seq]
    /\ pc \in {"send_fragmented", "frag_loop", "send_all", "sent"} /\ cfg.fragment
       => data = msg

\* the third frame of a fragmenting run, written in three chunks
C18_Witness ==
    /\ cfg.fragment /\ cfg.payload_len = 5 /\ pc = "sent" /\ seq = 2
    /\ Len(chunks) = 3 /\ msg = Frame(68, 5, 1, 2) /\ msg[7] = randrange256(1, 2)

\* the frames of the messages counted in stats.sent, in order
FramesUpTo == [key \in StreamKeys, n \in 0..MaxMsgs |->
                 Concat([k \in 1..n |-> FrameOf[key, k - 1]])]

SentFrames == FramesUpTo[StreamKey, stats.sent]

\* what the transport has accepted after those frames
Trailing == SubSeq(wire, Len(SentFrames) + 1, Len(wire))

\* the transport has the frames 0 .. sent-1, each with the first bytes of its
\* sequence number's big-endian encoding at the head of its payload and with
\* its log record, and after them a prefix of frame `sent`
WireIsFrames ==
    /\ Len(wire) >= Len(SentFrames)
    /\ SubSeq(wire, 1, Len(SentFrames)) = SentFrames
    /\ Trailing = SubSeq(FrameOf[StreamKey, stats.sent], 1, Len(Trailing))
    /\ \A k \in 1..stats.sent :
         LET f == FrameOf[StreamKey, k - 1]
         IN  /\ Len(f) = 2 + cfg.payload_len
             /\ \A j \in 1..Min(cfg.payload_len, 4) : f[2 + j] = BE32(ToWide(k - 1))[j]
             /\ cfg.log_csv => rows[k] = Row(k - 1, rows[k].send_time_s, Len(f), "ok")
    /\ result = Return(0) => Trailing = <<>>

\* C19 as stated: the bytes written are the frames 0 .. sent-1 followed by at
\* most a proper prefix of frame `sent`, which is non-empty only while a write
\* is in progress or after a write failure.
C19_WirePrefix ==
    /\ WireIsFrames
    /\ Trailing # <<>>
       => /\ Len(Trailing) < 2 + cfg.payload_len
          /\ (pc \in {"frag_loop", "send_all"} \/ write_fail.failed)

\* C19 amended: the bytes written are the frames 0 .. sent-1 followed by a
\* prefix of frame `sent`; the prefix is non-empty only while _send_one is at
\* work on that frame or after a write failure, and it is the whole frame only
\* between the last write of the frame and the counting of the send.
C19_WirePrefixOrPending ==
    /\ WireIsFrames
    /\ Trailing # <<>>
       => /\ Len(Trailing) <= 2 + cfg.payload_len
          /\ (pc \in {"frag_loop", "send_all", "sent"} \/ write_fail.failed)
          /\ Len(Trailing) = 2 + cfg.payload_len
             => \/ pc = "sent"
                \/ pc = "send_all" /\ total = Len(view)
                \/ pc = "frag_loop" /\ i = Len(data)
    /\ pc = "sent" => Len(Trailing) = 2 + cfg.payload_len

\* a run ended by a write failure in the middle of its third frame
C19_Witness ==
    /\ pc = "done" /\ write_fail.failed /\ stats.sent = 2 /\ cfg.payload_len = 5
    /\ Len(wire) = 17 /\ cfg.log_csv /\ cfg.fragment

\* C20: send_bytes = sent * (2 + payload_len); send_fail is 0 or 1 and, once
\* 1, sent and send_bytes stay; sent + send_fail is the number of calls of
\* _send_one that have ended (all of them but the one at work); no counter ever
\* decreases; replies <= sent and recv_bytes >= replies.
C20_Statistics ==
    /\ [](/\ stats.send_bytes = stats.sent * (2 + cfg.payload_len)
          /\ stats.send_fail \in {0, 1}
          /\ stats.sent + stats.send_fail
               = attempts - (IF pc \in {"send_fragmented", "frag_loop", "send_all",
                                        "sent", "send_exc"} THEN 1 ELSE 0)
          /\ stats.replies <= stats.sent
          /\ stats.recv_bytes >= stats.replies)
    /\ [][/\ \A f \in {"sent", "send_bytes", "send_fail", "replies", "recv_bytes"} :
               stats'[f] >= stats[f]
          /\ stats.send_fail = 1 => (stats'.sent = stats.sent
                                       /\ stats'.send_bytes = stats.send_bytes
                                       /\ stats'.send_fail = 1
                                       /\ attempts' = attempts)]_vars

\* two sends answered and counted, the third failed
C20_Witness ==
    /\ pc = "done" /\ stats.sent = 2 /\ stats.send_fail = 1 /\ attempts = 3
    /\ stats.send_bytes = 14 /\ stats.replies = 2 /\ stats.recv_bytes = 4

====
